---- MODULE Spec2Model ----
(***************************************************************************)
(* A model of the deployment session of runpod_simple:                     *)
(*   CLI.deploy_workflow  ->  CLI._deploy_new_pod (GPU fallback loop)      *)
(*   -> PodManager.wait_for_running -> PodManager.get_connection_details   *)
(*   -> CLI._create_tunnels -> SSHTunnel.start_tunnels / wait / stop_all.  *)
(* One action per blocking call or handler of the source.  Python          *)
(* exceptions are modelled by the handler they reach: KeyboardInterrupt    *)
(* and SystemExit are not instances of Exception.                          *)
(***************************************************************************)
EXTENDS Integers, Sequences, FiniteSets, TLC

(* ------------------------------ bounds --------------------------------- *)
\* Longest ranked candidate list select_optimal_gpu returns in the model.
MaxCand == 4
\* Most status fetches of a wait_for_running call checked on its own.
MaxPolls == 4
\* Most status fetches of the wait_for_running call inside a session.
MaxSessionPolls == 2
\* Longest whole-second duration of one status fetch (get_pod) in the model.
MaxFetchTime == 1
\* Longest call history of an SSHTunnel object used on its own.
MaxTunnelEvents == 5
\* Most terminate_pod calls made one after another.
MaxDeletes == 3
\* Longest inventory (gpu_types) handed to select_optimal_gpu on its own.
MaxGpuTypes == 2
\* Largest availability count of one GPU type.
MaxAvail == 2

(* ------------------------- program constants --------------------------- *)
max_attempts == 3
check_interval == 5

VARIABLES
    pc,              \* position of the session (deploy_workflow and callees)
    no_cleanup,      \* args.no_cleanup
    ranker_args,     \* arguments of a select_optimal_gpu call on its own
    ranker_result,   \* what that call returned or raised
    gpu_candidates,  \* ranked list returned by select_optimal_gpu
    gpu_config,      \* candidate the next deploy_pod call uses
    attempt,         \* loop variable of the fallback loop (0-based)
    creates,         \* history: one record per deploy_pod call, in order
    last_error,      \* the RuntimeError bound to e in the fallback loop
    pod,             \* the Pod returned by deploy_pod, or NoPod
    current_pod_id,  \* CLI.current_pod_id
    interrupted,     \* blocking point at which KeyboardInterrupt arrived
    exit_code,       \* status of the ended session, -1 while it runs
    exit_error,      \* the error the session boundary reports
    deletes,         \* history: the terminate_pod calls, in order
    wfr,             \* position inside wait_for_running
    timeout,         \* timeout argument of wait_for_running (0: None)
    elapsed,         \* whole seconds of time.time() - start_time
    frac,            \* TRUE when elapsed has a positive fractional part
    fetched,         \* history: the snapshots get_pod returned, in order
    poll_cap,        \* status fetches the model follows in one call
    ssh_key_path,    \* SSHTunnel.ssh_key_path is truthy (key mode)
    password,        \* SSHTunnel.password is truthy
    bind_idx,        \* index into the bind address list of start_tunnels
    procs,           \* every transport process launched, with its liveness
    processes,       \* SSHTunnel.processes: indices into procs
    events,          \* history: launches, stop_all and terminate_pod calls
    tunnel_result,   \* (success, message) start_tunnels returned
    local_ip,        \* local_ip of start_tunnels ("": not yet assigned)
    conn             \* what get_connection_details returned, or NoConn

vars == << pc, no_cleanup, ranker_args, ranker_result, gpu_candidates, gpu_config, attempt, creates,
           last_error, pod, current_pod_id, interrupted, exit_code,
           exit_error, deletes, wfr, timeout, elapsed, frac, fetched, poll_cap,
           ssh_key_path, password, bind_idx, procs, processes, events, tunnel_result,
           local_ip, conn >>

inputVars == << no_cleanup, ranker_args, ranker_result >>
credentials == << ssh_key_path, password >>

sessionVars == << inputVars, gpu_candidates, gpu_config, attempt, creates,
                  last_error, pod, current_pod_id >>
pollVars == << wfr, timeout, elapsed, frac, fetched, poll_cap >>
tunnelVars == << credentials, local_ip, bind_idx, procs, processes, events,
                 tunnel_result >>

NoPod == [id |-> "", gpu |-> 0]
NoError == {}
NoResult == [success |-> FALSE, message |-> ""]
NoArgs == << >>
NoPort == "none"
NoConn ==
    [ip |-> FALSE, ssh_port |-> NoPort, resolver |-> "not_called",
     mapped |-> FALSE, status |-> "not_checked"]
\* gpu_filter.py lines 124-127: the message carries the datacenter name.
NoCandidateError == {"no available gpu configuration", "datacenter"}
NoRanking ==
    [raised |-> FALSE, error |-> NoError, candidates |-> << >>,
     selected |-> 0, auto |-> FALSE]

Min(a, b) == IF a <= b THEN a ELSE b

(* ---------------------------- credentials ------------------------------ *)
\* Mutant: only the key is looked at.
CredentialMissing_KeyOnly(key, pw) == ~key

\* ssh_tunnel.py line 44 (and config.py line 145): `not ssh_key_path and
\* not password`; a value is modelled by its truthiness.
CredentialMissing(key, pw) == ~key /\ ~pw

\* The credentials a validated Config hands to SSHTunnel (cli.py 313-319).
Credentials ==
    {c \in [ssh_key_path : BOOLEAN, password : BOOLEAN] :
        ~CredentialMissing(c.ssh_key_path, c.password)}

(* ------------------- error messages of the create call ----------------- *)
\* A message is the set of the fragments it contains; `x in msg` of the
\* source is membership of the fragment.
ErrNoInstances == {"api request failed", "no longer any instances available"}
ErrServer == {"api request failed", "500"}
ErrBadRequest == {"api request failed", "400", "bad request"}
ErrAuth == {"api request failed", "401"}
\* A 400 whose response text happens to hold the digits 500 (a limit, a
\* price, an id): _request puts status and text into one message.
ErrBadRequestMentioning500 == {"api request failed", "400", "bad request", "500"}
CreateErrors ==
    {ErrNoInstances, ErrServer, ErrBadRequest, ErrAuth,
     ErrBadRequestMentioning500}

\* Mutant: every RuntimeError of the create call counts as retryable.
IsTransient_AnyError(error_msg) == error_msg = error_msg

\* cli.py line 284
IsTransient(error_msg) ==
    \/ "no longer any instances available" \in error_msg
    \/ "500" \in error_msg

\* Mutant: the attempt cap of line 283 is dropped.
MayRetry_NoCap(a, candidates) == a + 1 < Len(candidates)

\* cli.py lines 283 and 285: the guards around the fallback
MayRetry(a, candidates) ==
    /\ a < max_attempts - 1
    /\ a + 1 < Len(candidates)

\* Mutant: the fallback indexes with attempt instead of attempt + 1.
NextCandidate_Stale(a, candidates) == candidates[a + 1]

\* cli.py line 287: gpu_candidates[attempt + 1] (0-based in the source)
NextCandidate(a, candidates) == candidates[(a + 1) + 1]

\* The ranked list and the configuration select_optimal_gpu returns: the
\* list is ranked (candidate r is the r-th element), the configuration is
\* the first element, or the operator's pick when prompting.
RankedList(n) == [r \in 1..n |-> r]

(* ------------------------------- Init ---------------------------------- *)
Init ==
    /\ pc = "start"
    /\ no_cleanup \in BOOLEAN
    /\ ranker_args = NoArgs
    /\ ranker_result = NoRanking
    /\ gpu_candidates = << >>
    /\ gpu_config = 0
    /\ attempt = 0
    /\ creates = << >>
    /\ last_error = NoError
    /\ pod = NoPod
    /\ current_pod_id = ""
    /\ interrupted = "none"
    /\ exit_code = -1
    /\ exit_error = NoError
    /\ deletes = << >>
    /\ wfr = "idle"
    /\ timeout = 0
    /\ elapsed = 0
    /\ frac = FALSE
    /\ fetched = << >>
    /\ poll_cap = MaxSessionPolls
    /\ ssh_key_path = TRUE
    /\ password = FALSE
    /\ bind_idx = 0
    /\ procs = << >>
    /\ processes = << >>
    /\ events = << >>
    /\ tunnel_result = NoResult
    /\ local_ip = ""
    /\ conn = NoConn

(* ------------------------- session boundary ---------------------------- *)
\* deploy_workflow, lines 101-111: return 0, or the handler the exception
\* reaches.  SystemExit(1) is caught by neither handler and ends the process
\* with status 1.
SessionEnds(code, err) ==
    /\ pc' = "exited"
    /\ exit_code' = code
    /\ exit_error' = err

KeyboardInterrupt(where) ==
    /\ interrupted' = where
    /\ SessionEnds(130, NoError)

(* ---------------------- deploy_workflow: entry ------------------------- *)
\* init_config / init_api fail, or get_pods raises: the session ends with 1
\* before anything is created.
StartFails ==
    /\ pc = "start"
    /\ SessionEnds(1, {"api request failed"})
    /\ UNCHANGED << sessionVars, pollVars, tunnelVars, interrupted, deletes, conn >>

\* No pod is reused: _deploy_new_pod runs.  Its prelude (templates, volume,
\* GPU inventory) either returns early (the session then returns 0), raises,
\* or reaches select_optimal_gpu.
StartNewPod ==
    /\ pc = "start"
    /\ pc' = "prepare"
    /\ UNCHANGED << sessionVars, pollVars, tunnelVars, interrupted,
                    exit_code, exit_error, deletes, conn >>

PrepareReturnsEarly ==
    /\ pc = "prepare"
    /\ SessionEnds(0, NoError)
    /\ UNCHANGED << sessionVars, pollVars, tunnelVars, interrupted, deletes, conn >>

PrepareRaises ==
    /\ pc = "prepare"
    /\ SessionEnds(1, {"api request failed"})
    /\ UNCHANGED << sessionVars, pollVars, tunnelVars, interrupted, deletes, conn >>

\* select_optimal_gpu raises when no candidate is left.
SelectGpuNoCandidate ==
    /\ pc = "prepare"
    /\ SessionEnds(1, NoCandidateError)
    /\ UNCHANGED << sessionVars, pollVars, tunnelVars, interrupted, deletes, conn >>

\* select_optimal_gpu raises AttributeError at gpu_filter.py line 77 (a
\* session with --community and a non-empty inventory); cli.py line 106.
SelectGpuAttributeError ==
    /\ pc = "prepare"
    /\ SessionEnds(1, {"attributeerror"})
    /\ UNCHANGED << sessionVars, pollVars, tunnelVars, interrupted, deletes, conn >>

\* select_optimal_gpu sorts the candidates (gpu_filter.py line 139) and
\* chooses the cheapest (pick = 1) with auto_select or quiet, else the
\* candidate the operator picks at the prompt (lines 187-198); cli.py line
\* 249 receives the chosen configuration together with the sorted list.
SelectGpu ==
    /\ pc = "prepare"
    /\ \E n \in 1..MaxCand, pick \in 1..MaxCand :
          /\ pick <= n
          /\ gpu_candidates' = RankedList(n)
          /\ gpu_config' = RankedList(n)[pick]
    /\ attempt' = 0
    /\ pc' = "deploy"
    /\ UNCHANGED << inputVars, creates, last_error, pod, current_pod_id,
                    pollVars, tunnelVars, interrupted, exit_code, exit_error,
                    deletes, conn >>

(* ------------- _deploy_new_pod: the GPU fallback loop ------------------ *)
\* The provider-side kind of a create failure (what the provider reported,
\* not how the loop classifies the message).
ProviderKind(err) ==
    IF err \in {ErrNoInstances, ErrServer} THEN "transient" ELSE "fatal"

CreateCapReached == Len(creates) >= max_attempts + 1

\* cli.py lines 271-279 and 295-297: deploy_pod returns a Pod; the loop is
\* left, current_pod_id is set and wait_for_running(pod.id) is entered with
\* no timeout.
DeployPodSucceeds ==
    /\ pc = "deploy"
    /\ ~CreateCapReached
    /\ creates' = Append(creates, [candidate |-> gpu_config, outcome |-> "ok"])
    /\ pod' = [id |-> "pod", gpu |-> gpu_config]
    /\ current_pod_id' = "pod"
    /\ last_error' = NoError
    /\ pc' = "wait_for_running"
    /\ wfr' = "check"
    /\ timeout' = 0
    /\ elapsed' = 0
    /\ frac' = FALSE
    /\ fetched' = << >>
    /\ UNCHANGED << inputVars, gpu_candidates, gpu_config, attempt,
                    poll_cap, tunnelVars, interrupted, exit_code, exit_error, deletes, conn >>

\* cli.py lines 280-291: a RuntimeError the loop recovers from; the next
\* candidate is chosen and the loop sleeps before the next attempt.
DeployPodFailsRetry ==
    /\ pc = "deploy"
    /\ ~CreateCapReached
    /\ \E err \in CreateErrors :
          /\ MayRetry(attempt, gpu_candidates)
          /\ IsTransient(err)
          /\ creates' = Append(creates, [candidate |-> gpu_config,
                                         outcome |-> ProviderKind(err)])
          /\ last_error' = err
    /\ gpu_config' = NextCandidate(attempt, gpu_candidates)
    /\ pc' = "backoff"
    /\ UNCHANGED << inputVars, gpu_candidates, attempt, pod, current_pod_id,
                    pollVars, tunnelVars, interrupted, exit_code, exit_error,
                    deletes, conn >>

\* Mutant: the loop is left without re-raising (break for raise).
DeployPodFailsRaise_LeavesLoop ==
    /\ pc = "deploy"
    /\ ~CreateCapReached
    /\ \E err \in CreateErrors :
          /\ ~(MayRetry(attempt, gpu_candidates) /\ IsTransient(err))
          /\ creates' = Append(creates, [candidate |-> gpu_config,
                                         outcome |-> ProviderKind(err)])
          /\ last_error' = err
    /\ pc' = "wait_for_running"
    /\ UNCHANGED << inputVars, gpu_candidates, gpu_config, attempt, pod,
                    current_pod_id, pollVars, tunnelVars, interrupted,
                    exit_code, exit_error, deletes, conn >>

\* cli.py line 293: the RuntimeError is raised again and reaches the
\* `except Exception` handler of deploy_workflow.
DeployPodFailsRaise ==
    /\ pc = "deploy"
    /\ ~CreateCapReached
    /\ \E err \in CreateErrors :
          /\ ~(MayRetry(attempt, gpu_candidates) /\ IsTransient(err))
          /\ creates' = Append(creates, [candidate |-> gpu_config,
                                         outcome |-> ProviderKind(err)])
          /\ last_error' = err
          /\ SessionEnds(1, err)
    /\ UNCHANGED << inputVars, gpu_candidates, gpu_config, attempt, pod,
                    current_pod_id, pollVars, tunnelVars, interrupted,
                    deletes, conn >>

\* KeyboardInterrupt while the create call blocks: no Pod was returned.
DeployPodInterrupted ==
    /\ pc = "deploy"
    /\ KeyboardInterrupt("create")
    /\ UNCHANGED << sessionVars, pollVars, tunnelVars, deletes, conn >>

\* Mutant: the next create call is issued from the backoff, before the
\* loop is back at the call of line 272.
Backoff_IssuesNextCreate ==
    /\ pc = "backoff"
    /\ attempt' = attempt + 1
    /\ creates' = Append(creates, [candidate |-> gpu_config,
                                   outcome |-> "transient"])
    /\ pc' = "deploy"
    /\ UNCHANGED << inputVars, gpu_candidates, gpu_config, last_error, pod,
                    current_pod_id, pollVars, tunnelVars, interrupted,
                    exit_code, exit_error, deletes, conn >>

\* cli.py lines 290-291 and 266: time.sleep(2), continue, next attempt.
Backoff ==
    /\ pc = "backoff"
    /\ attempt' = attempt + 1
    /\ pc' = "deploy"
    /\ UNCHANGED << inputVars, gpu_candidates, gpu_config, creates,
                    last_error, pod, current_pod_id, pollVars, tunnelVars,
                    interrupted, exit_code, exit_error, deletes, conn >>

BackoffInterrupted ==
    /\ pc = "backoff"
    /\ KeyboardInterrupt("backoff")
    /\ UNCHANGED << sessionVars, pollVars, tunnelVars, deletes, conn >>

(* --------------------- PodManager.wait_for_running --------------------- *)
Statuses == {"PROVISIONING", "RUNNING", "TERMINATED", "EXITED"}
\* A snapshot get_pod returns: public_ip is TRUE when the address is
\* non-empty, port_mappings is the set of mapped remote ports.
Snapshots == [status : Statuses, public_ip : BOOLEAN,
              port_mappings : {{}, {"22"}}]

\* Mutant: the port mapping is not looked at.
has_ssh_Unchecked(snap) == snap = snap

\* pod_manager.py lines 109-110
has_ip(snap) == snap.public_ip
has_ssh(snap) == snap.port_mappings # {} /\ "22" \in snap.port_mappings

\* Mutant: EXITED is missing from the terminal statuses of line 127.
Classify_ExitedNotTerminal(snap) ==
    IF snap.status = "RUNNING"
    THEN IF has_ip(snap) /\ has_ssh(snap) THEN "succeed" ELSE "continue"
    ELSE IF snap.status = "TERMINATED" THEN "fail"
    ELSE "continue"

\* pod_manager.py lines 107-133: what one iteration does with the snapshot
Classify(snap) ==
    IF snap.status = "RUNNING"
    THEN IF has_ip(snap) /\ has_ssh(snap) THEN "succeed" ELSE "continue"
    ELSE IF snap.status \in {"TERMINATED", "EXITED"} THEN "fail"
    ELSE "continue"

\* Mutant: the interval about to be slept is counted in already.
TimedOut_CountsNextSleep(t, secs, fr) ==
    /\ t # 0
    /\ secs + check_interval > t

\* Mutant: an absent timeout is taken for a limit of zero seconds.
TimedOut_NoneIsZero(t, secs, fr) ==
    secs > t \/ (secs = t /\ fr)

\* Mutant: the elapsed time is compared with twice the timeout.
TimedOut_Doubled(t, secs, fr) ==
    /\ t # 0
    /\ (secs > 2 * t \/ (secs = 2 * t /\ fr))

\* pod_manager.py line 101: `timeout and (time.time() - start_time) > timeout`
TimedOut(t, secs, fr) ==
    /\ t # 0
    /\ (secs > t \/ (secs = t /\ fr))

WfrTimesOut ==
    /\ pc = "wait_for_running"
    /\ wfr = "check"
    /\ TimedOut(timeout, elapsed, frac)
    /\ wfr' = "timeout"
    /\ SessionEnds(1, {"did not become ready"})
    /\ UNCHANGED << sessionVars, timeout, elapsed, frac, fetched, poll_cap,
                    tunnelVars,
                    interrupted, deletes, conn >>

\* pod_manager.py lines 104-133: get_pod returns a snapshot after a positive
\* time; the snapshot is classified.
WfrFetch ==
    /\ pc = "wait_for_running"
    /\ wfr = "check"
    /\ ~TimedOut(timeout, elapsed, frac)
    /\ Len(fetched) < poll_cap
    /\ \E snap \in Snapshots, d \in 0..MaxFetchTime :
          /\ fetched' = Append(fetched, snap)
          /\ elapsed' = elapsed + d
          /\ frac' = TRUE
          /\ CASE Classify(snap) = "succeed" ->
                    /\ wfr' = "returned"
                    /\ pc' = "get_connection_details"
                    /\ UNCHANGED << exit_code, exit_error >>
               [] Classify(snap) = "fail" ->
                    /\ wfr' = "failed"
                    /\ SessionEnds(1, {"pod failed with status", snap.status})
               [] OTHER ->
                    /\ wfr' = "sleep"
                    /\ UNCHANGED << pc, exit_code, exit_error >>
    /\ UNCHANGED << sessionVars, timeout, poll_cap, tunnelVars, interrupted,
                    deletes, conn >>

\* get_pod raises (the API request failed).
WfrFetchRaises ==
    /\ pc = "wait_for_running"
    /\ wfr = "check"
    /\ ~TimedOut(timeout, elapsed, frac)
    /\ wfr' = "fetch_error"
    /\ SessionEnds(1, {"api request failed"})
    /\ UNCHANGED << sessionVars, timeout, elapsed, frac, fetched, poll_cap,
                    tunnelVars,
                    interrupted, deletes, conn >>

WfrFetchInterrupted ==
    /\ pc = "wait_for_running"
    /\ wfr = "check"
    /\ ~TimedOut(timeout, elapsed, frac)
    /\ wfr' = "interrupted"
    /\ KeyboardInterrupt("poll_fetch")
    /\ UNCHANGED << sessionVars, timeout, elapsed, frac, fetched, poll_cap,
                    tunnelVars,
                    deletes, conn >>

\* pod_manager.py line 135: time.sleep(check_interval)
WfrSleep ==
    /\ pc = "wait_for_running"
    /\ wfr = "sleep"
    /\ elapsed' = elapsed + check_interval
    /\ wfr' = "check"
    /\ UNCHANGED << pc, sessionVars, timeout, frac, fetched, poll_cap,
                    tunnelVars,
                    interrupted, exit_code, exit_error, deletes, conn >>

WfrSleepInterrupted ==
    /\ pc = "wait_for_running"
    /\ wfr = "sleep"
    /\ wfr' = "interrupted"
    /\ KeyboardInterrupt("poll_sleep")
    /\ UNCHANGED << sessionVars, timeout, elapsed, frac, fetched, poll_cap,
                    tunnelVars,
                    deletes, conn >>

\* cli.py line 297 passes no timeout: WfrTimesOut cannot fire in a session.
SessionPollerNext ==
    \/ WfrFetch
    \/ WfrFetchRaises
    \/ WfrFetchInterrupted
    \/ WfrSleep
    \/ WfrSleepInterrupted

(* ------------------ PodManager.get_connection_details ------------------ *)
\* What the GraphQL query of the resolver ends with: a TCP port for private
\* port 22, no such port, or an exception anywhere in the body.
ResolverOutcomes == {"port", "no_port", "fails"}

\* api_client.py lines 420-462: the whole body is inside `try`, every
\* Exception gives None.
get_pod_ssh_port_from_graphql(outcome) ==
    IF outcome = "port" THEN "graphql_port" ELSE NoPort

\* Mutant: the mapping of the snapshot is preferred to the resolver's port.
SshPort_SnapshotFirst(resolved, snap) ==
    IF "22" \in snap.port_mappings THEN "rest_port" ELSE resolved

\* pod_manager.py lines 146-150: the resolver's port, else the snapshot's
\* mapping for "22".
SshPort(resolved, snap) ==
    IF resolved # NoPort THEN resolved
    ELSE IF "22" \in snap.port_mappings THEN "rest_port" ELSE NoPort

\* pod_manager.py lines 142-153: neither RuntimeError is raised.
ConnectionOk(snap, resolved) ==
    /\ snap.public_ip
    /\ SshPort(resolved, snap) # NoPort

\* pod_manager.py lines 140-161.  The record keeps, next to ip and ssh_port
\* of the returned dict, what the call saw: the resolver's outcome
\* ("not_called" when line 143 raised before it) and whether the snapshot
\* maps port 22.
ConnectionDetails(snap, outcome) ==
    [ip |-> snap.public_ip,
     ssh_port |-> IF snap.public_ip
                  THEN SshPort(get_pod_ssh_port_from_graphql(outcome), snap)
                  ELSE NoPort,
     resolver |-> IF snap.public_ip THEN outcome ELSE "not_called",
     mapped |-> "22" \in snap.port_mappings,
     status |-> "not_checked"]

\* cli.py lines 299-319: the details go to a new SSHTunnel, whose
\* start_tunnels begins with detect_local_ip.
GetConnectionDetails ==
    /\ pc = "get_connection_details"
    /\ \E snap \in Snapshots, outcome \in ResolverOutcomes :
          /\ conn' = ConnectionDetails(snap, outcome)
          /\ IF ConnectionOk(snap, get_pod_ssh_port_from_graphql(outcome))
             THEN /\ pc' = "detect_local_ip"
                  /\ \E cred \in Credentials :
                        /\ ssh_key_path' = cred.ssh_key_path
                        /\ password' = cred.password
                  /\ UNCHANGED << exit_code, exit_error >>
             ELSE /\ SessionEnds(1, {"no public ip or ssh port"})
                  /\ UNCHANGED << credentials >>
    /\ wfr' = "idle"
    /\ fetched' = << >>
    /\ elapsed' = 0
    /\ frac' = FALSE
    /\ UNCHANGED << sessionVars, timeout, poll_cap, local_ip, bind_idx, procs,
                    processes, events, tunnel_result, interrupted, deletes >>

\* get_pod of line 140 raises (the API request failed).
GetConnectionDetailsFetchRaises ==
    /\ pc = "get_connection_details"
    /\ SessionEnds(1, {"api request failed"})
    /\ UNCHANGED << sessionVars, pollVars, tunnelVars, interrupted, deletes,
                    conn >>

GetConnectionDetailsInterrupted ==
    /\ pc = "get_connection_details"
    /\ KeyboardInterrupt("connection_details")
    /\ UNCHANGED << sessionVars, pollVars, tunnelVars, deletes, conn >>

(* ------------------------ _reuse_existing_pod -------------------------- *)
\* Mutant: every status but TERMINATED is accepted.
ReusableStatus_NotTerminated(status) == status # "TERMINATED"

\* pod_manager.py line 168
ReusableStatus(status) == status = "RUNNING"

\* cli.py lines 113-126 and pod_manager.py lines 163-171: get_existing_pod
\* fetches the pod and wants it RUNNING, then get_connection_details
\* fetches it again; current_pod_id is set after the lookup.  conn keeps
\* the status the lookup saw; an error ends the session before any tunnel
\* is built.
ReuseExistingPod ==
    /\ pc = "start"
    /\ \E first \in Snapshots, snap \in Snapshots,
          outcome \in ResolverOutcomes :
          IF ~ReusableStatus(first.status)
          THEN /\ conn' = [NoConn EXCEPT !.status = first.status]
               /\ SessionEnds(1, {"failed to reuse pod"})
               /\ UNCHANGED << current_pod_id, credentials >>
          ELSE /\ conn' = [ConnectionDetails(snap, outcome)
                              EXCEPT !.status = first.status]
               /\ IF ConnectionOk(snap,
                                  get_pod_ssh_port_from_graphql(outcome))
                  THEN /\ current_pod_id' = "existing"
                       /\ pc' = "detect_local_ip"
                       /\ \E cred \in Credentials :
                             /\ ssh_key_path' = cred.ssh_key_path
                             /\ password' = cred.password
                       /\ UNCHANGED << exit_code, exit_error >>
                  ELSE /\ SessionEnds(1, {"failed to reuse pod"})
                       /\ UNCHANGED << current_pod_id, credentials >>
    /\ UNCHANGED << inputVars, gpu_candidates, gpu_config, attempt, creates,
                    last_error, pod, pollVars, local_ip, bind_idx, procs,
                    processes, events, tunnel_result, interrupted, deletes >>

(* ------------------------- detect_local_ip ----------------------------- *)
\* What the probing of the interfaces ends with: netifaces cannot be
\* imported, an address was found, none was found, or a call of netifaces
\* raised.
ProbeOutcomes == {"import_error", "found", "none_found"}

\* ssh_tunnel.py lines 73-84: the first candidate, else the placeholder.
detect_local_ip(probe) ==
    IF probe = "found" THEN "lan" ELSE "localhost"

\* ssh_tunnel.py line 207, then the loop of line 214 starts.
DetectLocalIp ==
    /\ pc = "detect_local_ip"
    /\ \E probe \in ProbeOutcomes : local_ip' = detect_local_ip(probe)
    /\ bind_idx' = 1
    /\ pc' = "start_tunnels"
    /\ UNCHANGED << sessionVars, pollVars, credentials, procs, processes,
                    events, tunnel_result, interrupted, exit_code, exit_error,
                    deletes, conn >>

\* ssh_tunnel.py lines 50-80: only ImportError is caught, so an error raised
\* by netifaces.interfaces() or ifaddresses() leaves detect_local_ip and, the
\* call of line 207 being outside the try of line 226, start_tunnels too;
\* cli.py line 105 reports it.
DetectLocalIpRaises ==
    /\ pc = "detect_local_ip"
    /\ SessionEnds(1, {"interface probing raised"})
    /\ UNCHANGED << sessionVars, pollVars, tunnelVars, interrupted, deletes,
                    conn >>

(* ------------------------------ SSHTunnel ------------------------------ *)
\* ssh_tunnel.py line 214
BindAddrs == << "0.0.0.0", "127.0.0.1" >>

\* ssh_tunnel.py lines 38-42: the configured forwards.
tunnels ==
    << [local |-> 11434, remote |-> 11434, name |-> "Ollama API"],
       [local |-> 8080, remote |-> 8080, name |-> "WebUI"],
       [local |-> 2222, remote |-> 22, name |-> "SSH (Local)"] >>

\* Mutant: the command forwards the first entry only.
BuildSshCommand_FirstOnly(ts, bind_addr, key) ==
    [forwards |-> << [bind |-> bind_addr, local |-> ts[1].local,
                      remote |-> ts[1].remote] >>,
     identity |-> key]

\* _build_ssh_command, lines 86-120: one -L option per entry, all bound to
\* bind_addr, and -i when a key path is set.
BuildSshCommand(ts, bind_addr, key) ==
    [forwards |-> [i \in DOMAIN ts |->
                      [bind |-> bind_addr, local |-> ts[i].local,
                       remote |-> ts[i].remote]],
     identity |-> key]

Range(f) == {f[i] : i \in DOMAIN f}
Registered == Range(processes)
LiveProcs == {i \in DOMAIN procs : procs[i].alive}

\* ssh_tunnel.py lines 345-373.  A Popen handle is terminated, waited for
\* and killed; a pexpect handle only gets terminate() (its wait(timeout=5)
\* and kill() calls raise TypeError, which the bare excepts swallow), so a
\* child that ignores the hang-up stays alive: `survivors`.
\* Mutant: every live process is stopped, registered or not.
StopAllProcs_EveryLive(ps, reg, survivors) ==
    [i \in DOMAIN ps |->
        IF ps[i].alive
        THEN [ps[i] EXCEPT !.signalled = TRUE, !.alive = FALSE]
        ELSE ps[i]]

\* Every registered handle is signalled (terminate()).
StopAllProcs(ps, reg, survivors) ==
    [i \in DOMAIN ps |->
        IF i \in reg
        THEN [ps[i] EXCEPT !.signalled = TRUE,
                           !.alive = ps[i].alive /\ i \in survivors]
        ELSE ps[i]]

MaySurvive(ps, reg) == {i \in reg : ps[i].kind = "pexpect" /\ ps[i].alive}

\* Mutant: the registry is not cleared.
StopAll_KeepsRegistry(ps, reg, survivors, ev) ==
    /\ procs' = StopAllProcs(ps, reg, survivors)
    /\ processes' = processes
    /\ events' = Append(ev, "stop_all")

\* stop_all returns at once when the registry is empty.
StopAll(ps, reg, survivors, ev) ==
    /\ procs' = StopAllProcs(ps, reg, survivors)
    /\ processes' = << >>
    /\ events' = Append(ev, "stop_all")

\* ssh_tunnel.py lines 309-312: the handler of one bind attempt.
BindFailed(ps, reg, ev) ==
    /\ \E survivors \in SUBSET MaySurvive(ps, reg) :
          StopAll(ps, reg, survivors, ev)
    /\ bind_idx' = bind_idx + 1

\* `launched` tells how the launch went (the outcome names of the launch
\* actions below).
NewProc(kind, alive, launched) ==
    [kind |-> kind, bind |-> BindAddrs[bind_idx], alive |-> alive,
     signalled |-> FALSE, launched |-> launched,
     cmd |-> BuildSshCommand(tunnels, BindAddrs[bind_idx], ssh_key_path)]

\* ssh_tunnel.py lines 302-305
SuccessMessage(bind_addr) ==
    IF bind_addr = "127.0.0.1" THEN "localhost-only" ELSE "network-wide"

\* _create_tunnel_with_key, lines 149-167, called from line 234.
\*   "spawn_error": Popen raises;  "exited": the process is gone after the
\*   one second sleep;  "alive": the handle is returned and registered.
LaunchWithKey ==
    /\ pc = "start_tunnels"
    /\ bind_idx <= Len(BindAddrs)
    /\ ssh_key_path
    /\ \E outcome \in {"spawn_error", "exited", "alive"} :
          CASE outcome = "spawn_error" ->
                    /\ BindFailed(procs, Registered, Append(events, "launch"))
                    /\ UNCHANGED pc
            [] outcome = "exited" ->
                    /\ BindFailed(Append(procs, NewProc("popen", FALSE, "exited")),
                                  Registered, Append(events, "launch"))
                    /\ UNCHANGED pc
            [] OTHER ->
                    /\ procs' = Append(procs, NewProc("popen", TRUE, "alive"))
                    /\ processes' = Append(processes, Len(procs) + 1)
                    /\ events' = Append(events, "launch")
                    /\ pc' = "settle"
                    /\ UNCHANGED bind_idx
    /\ UNCHANGED << sessionVars, pollVars, credentials, local_ip, tunnel_result,
                    interrupted, exit_code, exit_error, deletes, conn >>

\* _create_tunnel_with_password, lines 127-142, called from line 236.
\*   "spawn_error": pexpect.spawn raises;
\*   "eof": the child ended before asking (index 1), the dead handle is
\*          returned;
\*   "no_prompt": nothing was asked within 30 s (index 2), the live handle
\*          is returned;
\*   "prompt_eof": the password was sent and the child ended within 5 s;
\*   "prompt_alive": the password was sent and the child kept running:
\*          expect(EOF, timeout=5) raises TIMEOUT, re-raised as RuntimeError,
\*          and the live child is not registered.  Its handle is garbage
\*          from then on; the finalizer of the handle kills the child when
\*          the collector gets to it, which may be before or after
\*          start_tunnels returns: `reaped`.
LaunchWithPassword ==
    /\ pc = "start_tunnels"
    /\ bind_idx <= Len(BindAddrs)
    /\ ~ssh_key_path
    /\ \E outcome \in {"spawn_error", "eof", "no_prompt", "prompt_eof",
                       "prompt_alive"} :
          CASE outcome = "spawn_error" ->
                    /\ BindFailed(procs, Registered, Append(events, "launch"))
                    /\ UNCHANGED pc
            [] outcome = "prompt_alive" ->
                    /\ \E reaped \in BOOLEAN :
                          BindFailed(
                              Append(procs, NewProc("pexpect", ~reaped, "prompt_alive")),
                              Registered, Append(events, "launch"))
                    /\ UNCHANGED pc
            [] OTHER ->
                    /\ procs' = Append(procs,
                                   NewProc("pexpect", outcome = "no_prompt", outcome))
                    /\ processes' = Append(processes, Len(procs) + 1)
                    /\ events' = Append(events, "launch")
                    /\ pc' = "settle"
                    /\ UNCHANGED bind_idx
    /\ UNCHANGED << sessionVars, pollVars, credentials, local_ip, tunnel_result,
                    interrupted, exit_code, exit_error, deletes, conn >>

\* KeyboardInterrupt while the launch blocks (the one second sleep, or
\* expect): it is no Exception, so neither the launcher's nor
\* start_tunnels' handler runs; the child just spawned stays unregistered.
LaunchInterrupted ==
    /\ pc = "start_tunnels"
    /\ bind_idx <= Len(BindAddrs)
    /\ procs' = Append(procs,
                   NewProc(IF ssh_key_path THEN "popen" ELSE "pexpect", TRUE,
                           "interrupted"))
    /\ events' = Append(events, "launch")
    /\ KeyboardInterrupt("launch")
    /\ UNCHANGED << sessionVars, pollVars, credentials, local_ip, bind_idx, processes,
                    tunnel_result, deletes, conn >>

\* ssh_tunnel.py lines 241-257 and 302-307: after the two second settle
\* interval the registered handle is probed.
SettleAlive ==
    /\ pc = "settle"
    /\ procs[processes[Len(processes)]].alive
    /\ tunnel_result' = [success |-> TRUE,
                         message |-> SuccessMessage(BindAddrs[bind_idx])]
    /\ pc' = "post_setup"
    /\ UNCHANGED << sessionVars, pollVars, credentials, local_ip, bind_idx, procs,
                    processes, events, interrupted, exit_code, exit_error,
                    deletes, conn >>

\* The handle is (or has become) dead: RuntimeError, handler of line 309.
SettleDead ==
    /\ pc = "settle"
    /\ LET h == processes[Len(processes)]
           dead == [procs EXCEPT ![h].alive = FALSE]
       IN BindFailed(dead, Registered, events)
    /\ pc' = "start_tunnels"
    /\ UNCHANGED << sessionVars, pollVars, credentials, local_ip, tunnel_result,
                    interrupted, exit_code, exit_error, deletes, conn >>

SettleInterrupted ==
    /\ pc = "settle"
    /\ KeyboardInterrupt("settle")
    /\ UNCHANGED << sessionVars, pollVars, tunnelVars, deletes, conn >>

\* What the DELETE request of delete_pod ends with (api_client.py 70-124 and
\* 261-264): a status ("none": no response, the request itself failed) and
\* the fragments the error text carries besides the status.
DeleteOk == [status |-> "200", body |-> {}]
DeleteNotFound == [status |-> "404", body |-> {"pod not found"}]
DeleteServerError == [status |-> "500", body |-> {"internal error"}]
DeleteServerErrorMentioning404 ==
    [status |-> "500", body |-> {"internal error", "404"}]
DeleteConnectionError == [status |-> "none", body |-> {"connection refused"}]
DeleteOutcomes ==
    {DeleteOk, DeleteNotFound, DeleteServerError,
     DeleteServerErrorMentioning404, DeleteConnectionError}

\* str(e) of the RuntimeError _request raises (api_client.py 107 and 124).
ErrorText(outcome) ==
    {"api request failed"} \cup outcome.body
        \cup (IF outcome.status = "none" THEN {} ELSE {outcome.status})

\* pod_manager.py lines 173-189: the value terminate_pod returns.
terminate_pod(outcome) ==
    IF outcome = DeleteOk THEN TRUE ELSE "404" \in ErrorText(outcome)

\* Mutant: the id is taken from the Pod the create call returned.
TerminatePod_IdOfCreatedPod(ev) ==
    /\ \E outcome \in DeleteOutcomes :
          deletes' = Append(deletes, [id |-> pod.id,
                                      outcome |-> outcome,
                                      returned |-> terminate_pod(outcome)])
    /\ events' = Append(ev, "terminate_pod")

\* terminate_pod never raises: it catches every Exception of delete_pod.
\* cli.py lines 326 and 572 pass self.current_pod_id.
TerminatePod(ev) ==
    /\ \E outcome \in DeleteOutcomes :
          deletes' = Append(deletes, [id |-> current_pod_id,
                                      outcome |-> outcome,
                                      returned |-> terminate_pod(outcome)])
    /\ events' = Append(ev, "terminate_pod")

\* Mutant: the pod is terminated whatever --no-cleanup says.
CleanupWanted_IgnoresFlag == current_pod_id # ""

\* Mutant: the pod is never terminated.
CleanupWanted_Never == FALSE

\* cli.py lines 325 and 570
CleanupWanted == ~no_cleanup /\ current_pod_id # ""

\* ssh_tunnel.py line 314 and cli.py lines 323-327: both bind addresses
\* failed; the pod is terminated unless cleanup is disabled; sys.exit(1).
StartTunnelsFails ==
    /\ pc = "start_tunnels"
    /\ bind_idx > Len(BindAddrs)
    /\ tunnel_result' = [success |-> FALSE, message |-> "failed"]
    /\ IF CleanupWanted
       THEN TerminatePod(events)
       ELSE UNCHANGED << deletes, events >>
    /\ SessionEnds(1, {"failed to create tunnels"})
    /\ UNCHANGED << sessionVars, pollVars, credentials, local_ip, bind_idx,
                    procs, processes, interrupted, conn >>

(* ---------------- _create_tunnels after start_tunnels ------------------ *)
\* cli.py lines 329-561: preseeding, warmup and remote configuration, all
\* best-effort, then the tunnel table.
PostSetup ==
    /\ pc = "post_setup"
    /\ pc' = "wait"
    /\ UNCHANGED << sessionVars, pollVars, tunnelVars, interrupted,
                    exit_code, exit_error, deletes, conn >>

PostSetupInterrupted ==
    /\ pc = "post_setup"
    /\ KeyboardInterrupt("post_setup")
    /\ UNCHANGED << sessionVars, pollVars, tunnelVars, deletes, conn >>

\* Mutant: the session tears down and terminates after wait returns.
WaitTransportExits_CleansUp ==
    /\ pc = "wait"
    /\ procs' = StopAllProcs(procs, Registered, {})
    /\ processes' = << >>
    /\ IF CleanupWanted
       THEN TerminatePod(Append(events, "stop_all"))
       ELSE /\ events' = Append(events, "stop_all")
            /\ UNCHANGED deletes
    /\ SessionEnds(0, NoError)
    /\ UNCHANGED << sessionVars, pollVars, credentials, local_ip, bind_idx,
                    tunnel_result, interrupted, conn >>

\* ssh_tunnel.py lines 322-340 and cli.py line 101: the transport exits on
\* its own, wait() returns, the session returns 0.
WaitTransportExits ==
    /\ pc = "wait"
    /\ procs' = [i \in DOMAIN procs |->
                    IF i \in Registered
                    THEN [procs[i] EXCEPT !.alive = FALSE] ELSE procs[i]]
    /\ SessionEnds(0, NoError)
    /\ UNCHANGED << sessionVars, pollVars, credentials, local_ip, bind_idx, processes,
                    events, tunnel_result, interrupted, deletes, conn >>

\* ssh_tunnel.py lines 341-343 and cli.py lines 568-574 and 101:
\* KeyboardInterrupt in wait() is re-raised and handled by _create_tunnels,
\* which then returns normally.
WaitInterrupted ==
    /\ pc = "wait"
    /\ interrupted' = "wait"
    /\ \E survivors \in SUBSET MaySurvive(procs, Registered) :
          /\ procs' = StopAllProcs(procs, Registered, survivors)
          /\ processes' = << >>
    /\ IF CleanupWanted
       THEN TerminatePod(Append(events, "stop_all"))
       ELSE /\ events' = Append(events, "stop_all")
            /\ UNCHANGED deletes
    /\ SessionEnds(0, NoError)
    /\ UNCHANGED << sessionVars, pollVars, credentials, local_ip, bind_idx,
                    tunnel_result, conn >>

(* --------------------------- specifications ---------------------------- *)
Next ==
    \/ StartFails
    \/ StartNewPod
    \/ ReuseExistingPod
    \/ PrepareReturnsEarly
    \/ PrepareRaises
    \/ SelectGpuNoCandidate
    \/ SelectGpuAttributeError
    \/ SelectGpu
    \/ DeployPodSucceeds
    \/ DeployPodFailsRetry
    \/ DeployPodFailsRaise
    \/ DeployPodInterrupted
    \/ Backoff
    \/ BackoffInterrupted
    \/ SessionPollerNext
    \/ GetConnectionDetails
    \/ GetConnectionDetailsFetchRaises
    \/ GetConnectionDetailsInterrupted
    \/ DetectLocalIp
    \/ DetectLocalIpRaises
    \/ LaunchWithKey
    \/ LaunchWithPassword
    \/ LaunchInterrupted
    \/ SettleAlive
    \/ SettleDead
    \/ SettleInterrupted
    \/ StartTunnelsFails
    \/ PostSetup
    \/ PostSetupInterrupted
    \/ WaitTransportExits
    \/ WaitInterrupted

Spec == Init /\ [][Next]_vars

\* wait_for_running on its own: called for a created pod with a timeout
\* argument (0 stands for None).
Timeouts == {0, 5, 10, 11}

InitPoller ==
    /\ pc = "wait_for_running"
    /\ no_cleanup = FALSE
    /\ ranker_args = NoArgs
    /\ ranker_result = NoRanking
    /\ gpu_candidates = << >>
    /\ gpu_config = 0
    /\ attempt = 0
    /\ creates = << >>
    /\ last_error = NoError
    /\ pod = [id |-> "pod", gpu |-> 1]
    /\ current_pod_id = "pod"
    /\ interrupted = "none"
    /\ exit_code = -1
    /\ exit_error = NoError
    /\ deletes = << >>
    /\ wfr = "check"
    /\ timeout \in Timeouts
    /\ elapsed = 0
    /\ frac = FALSE
    /\ fetched = << >>
    /\ poll_cap = MaxPolls
    /\ ssh_key_path = TRUE
    /\ password = FALSE
    /\ bind_idx = 0
    /\ procs = << >>
    /\ processes = << >>
    /\ events = << >>
    /\ tunnel_result = NoResult
    /\ local_ip = ""
    /\ conn = NoConn

NextPoller ==
    \/ WfrTimesOut
    \/ WfrFetch
    \/ WfrFetchRaises
    \/ WfrFetchInterrupted
    \/ WfrSleep
    \/ WfrSleepInterrupted

SpecPoller == InitPoller /\ [][NextPoller]_vars

(* ------------------- an SSHTunnel object on its own -------------------- *)
\* The object is constructed with any pair of credentials, start_tunnels
\* is called at most once on it (cli.py 313-321 constructs a fresh object
\* for its one call), wait and stop_all are called at any time between.
InitTunnel ==
    /\ pc = "construct"
    /\ no_cleanup = TRUE
    /\ ranker_args = NoArgs
    /\ ranker_result = NoRanking
    /\ gpu_candidates = << >>
    /\ gpu_config = 0
    /\ attempt = 0
    /\ creates = << >>
    /\ last_error = NoError
    /\ pod = NoPod
    /\ current_pod_id = ""
    /\ interrupted = "none"
    /\ exit_code = -1
    /\ exit_error = NoError
    /\ deletes = << >>
    /\ wfr = "idle"
    /\ timeout = 0
    /\ elapsed = 0
    /\ frac = FALSE
    /\ fetched = << >>
    /\ poll_cap = 0
    /\ ssh_key_path = FALSE
    /\ password = FALSE
    /\ bind_idx = 0
    /\ procs = << >>
    /\ processes = << >>
    /\ events = << >>
    /\ tunnel_result = NoResult
    /\ local_ip = ""
    /\ conn = NoConn

objectVars == << sessionVars, pollVars, deletes, conn >>

\* ssh_tunnel.py lines 24-45: the fields are assigned, then the credential
\* check raises ValueError.
Construct ==
    /\ pc = "construct"
    /\ \E key \in BOOLEAN, pw \in BOOLEAN :
          /\ ssh_key_path' = key
          /\ password' = pw
          /\ IF CredentialMissing(key, pw)
             THEN SessionEnds(1, {"either ssh key or password is required"})
             ELSE /\ pc' = "idle"
                  /\ UNCHANGED << exit_code, exit_error >>
    /\ processes' = << >>
    /\ UNCHANGED << objectVars, local_ip, bind_idx, procs, events,
                    tunnel_result, interrupted >>

\* No call is in progress on the constructed object.
Idle == pc \in {"idle", "post_setup"}

TunnelStartTunnels ==
    /\ pc = "idle"
    /\ bind_idx = 0
    /\ pc' = "detect_local_ip"
    /\ UNCHANGED << objectVars, credentials, local_ip, bind_idx, procs, processes, events,
                    tunnel_result, interrupted, exit_code, exit_error >>

\* ssh_tunnel.py line 314: both bind addresses failed.
TunnelStartTunnelsFails ==
    /\ pc = "start_tunnels"
    /\ bind_idx > Len(BindAddrs)
    /\ tunnel_result' = [success |-> FALSE, message |-> "failed"]
    /\ pc' = "idle"
    /\ UNCHANGED << objectVars, credentials, local_ip, bind_idx, procs, processes,
                    events, interrupted, exit_code, exit_error >>

\* ssh_tunnel.py lines 345-373
TunnelStopAll ==
    /\ Idle
    /\ Len(events) < MaxTunnelEvents
    /\ \E survivors \in SUBSET MaySurvive(procs, Registered) :
          StopAll(procs, Registered, survivors, events)
    /\ pc' = "idle"
    /\ UNCHANGED << objectVars, credentials, local_ip, bind_idx, tunnel_result,
                    interrupted, exit_code, exit_error >>

\* Mutant: wait swallows the interrupt and returns.
WaitOutcome_Swallows(interrupt) == "wait_returned"

\* ssh_tunnel.py lines 329-343: `raise` in the KeyboardInterrupt handler.
WaitOutcome(interrupt) ==
    IF interrupt THEN "wait_raised" ELSE "wait_returned"

\* ssh_tunnel.py lines 324-325: an empty registry returns at once;
\* otherwise the call blocks in the loop of lines 330-340.
TunnelWait ==
    /\ Idle
    /\ Len(events) < MaxTunnelEvents
    /\ IF processes = << >>
       THEN /\ events' = Append(events, WaitOutcome(FALSE))
            /\ pc' = "idle"
       ELSE /\ events' = Append(events, "wait")
            /\ pc' = "wait"
    /\ UNCHANGED << objectVars, credentials, local_ip, bind_idx, procs, processes,
                    tunnel_result, interrupted, exit_code, exit_error >>

\* Every registered handle has terminated: the loop ends, wait returns.
TunnelWaitReturns ==
    /\ pc = "wait"
    /\ procs' = [i \in DOMAIN procs |->
                    IF i \in Registered
                    THEN [procs[i] EXCEPT !.alive = FALSE] ELSE procs[i]]
    /\ events' = Append(events, WaitOutcome(FALSE))
    /\ pc' = "idle"
    /\ UNCHANGED << objectVars, credentials, local_ip, bind_idx, processes,
                    tunnel_result, interrupted, exit_code, exit_error >>

\* KeyboardInterrupt while a handle is waited for.
TunnelWaitInterrupted ==
    /\ pc = "wait"
    /\ interrupted' = "wait"
    /\ events' = events \o << "interrupt", WaitOutcome(TRUE) >>
    /\ pc' = "idle"
    /\ UNCHANGED << objectVars, credentials, local_ip, bind_idx, procs, processes,
                    tunnel_result, exit_code, exit_error >>

NextTunnel ==
    \/ Construct
    \/ TunnelStartTunnels
    \/ DetectLocalIp
    \/ DetectLocalIpRaises
    \/ LaunchWithKey
    \/ LaunchWithPassword
    \/ SettleAlive
    \/ SettleDead
    \/ TunnelStartTunnelsFails
    \/ TunnelStopAll
    \/ TunnelWait
    \/ TunnelWaitReturns
    \/ TunnelWaitInterrupted

SpecTunnel == InitTunnel /\ [][NextTunnel]_vars

(* --------------------- select_optimal_gpu on its own ------------------- *)
\* An absent price (None) and a price of 0 are both falsy; prices are whole
\* multiples of the smallest price unit.
NoPrice == 0
\* min_cost / max_cost not given (None).
NoCost == -1

\* GPUInfo records as get_gpu_types builds them (api_client.py 49-56 and
\* 363-370): the dataclass has no community_price field.  Types that are
\* too small even as a pair, that fit as a pair, that fit alone, with equal
\* prices and different stock, and without a price in some tier.
GpuCatalogue ==
    { [id |-> "A", memory_in_gb |-> 24, secure_price |-> 2,
       community_spot_price |-> 1, stock_status |-> "High"],
      [id |-> "B", memory_in_gb |-> 12, secure_price |-> 1,
       community_spot_price |-> NoPrice, stock_status |-> "Low"],
      [id |-> "C", memory_in_gb |-> 48, secure_price |-> 4,
       community_spot_price |-> NoPrice, stock_status |-> "Medium"],
      [id |-> "D", memory_in_gb |-> 24, secure_price |-> 2,
       community_spot_price |-> 1, stock_status |-> "Low"],
      [id |-> "E", memory_in_gb |-> 8, secure_price |-> 1,
       community_spot_price |-> 1, stock_status |-> "None"],
      [id |-> "F", memory_in_gb |-> 24, secure_price |-> NoPrice,
       community_spot_price |-> 1, stock_status |-> "High"] }

\* Inventories: sequences of distinct catalogue entries.
Inventories ==
    UNION {{inv \in [1..n -> GpuCatalogue] :
               \A i, j \in 1..n : i # j => inv[i].id # inv[j].id}
           : n \in 0..MaxGpuTypes}

\* Availability maps: a count for some of the inventory's ids.
AvailabilityMaps(inv) ==
    UNION {[ids -> 0..MaxAvail] : ids \in SUBSET {inv[i].id : i \in DOMAIN inv}}

MinVrams == {16, 24, 48}
Costs == {NoCost, 2}
CloudTiers ==
    {[cloud_type |-> "SECURE", is_spot |-> FALSE],
     [cloud_type |-> "COMMUNITY", is_spot |-> FALSE],
     [cloud_type |-> "COMMUNITY", is_spot |-> TRUE]}

AllowTwoGpus == {"None", "True", "False"}

\* Mutant: a type the map does not mention counts as available once.
AvailCount_AbsentIsOne(availability, id) ==
    IF id \in DOMAIN availability THEN availability[id] ELSE 1

\* gpu_filter.py line 67: availability.get(gpu.id, 0)
AvailCount(availability, id) ==
    IF id \in DOMAIN availability THEN availability[id] ELSE 0

\* What reading an attribute the object does not have gives: AttributeError.
AttributeError == -2

\* gpu_filter.py lines 70-77.  Line 77 reads gpu.community_price.
Price(gpu, tier) ==
    IF tier.cloud_type = "COMMUNITY"
    THEN IF tier.is_spot
         THEN IF gpu.community_spot_price # NoPrice
              THEN gpu.community_spot_price ELSE gpu.secure_price
         ELSE IF "community_price" \in DOMAIN gpu
              THEN IF gpu.community_price # NoPrice
                   THEN gpu.community_price ELSE gpu.secure_price
              ELSE AttributeError
    ELSE gpu.secure_price

\* gpu_filter.py lines 65-77: the price is worked out for every type of
\* the inventory before any test, so the first type makes line 77 raise.
PriceRaises(args) ==
    \E i \in DOMAIN args.gpu_types :
        Price(args.gpu_types[i], args.tier) = AttributeError


\* gpu_filter.py line 83, the memory test of the single-unit option
SingleFits(memory, min_vram_gb) == memory >= min_vram_gb

\* Mutant: a pair is offered for every type that is too small alone.
DualFits_AnySmaller(memory, min_vram_gb) == memory < min_vram_gb

\* Mutant: a pair is offered whenever the pair is large enough.
DualFits_AlsoWhenSingleFits(memory, min_vram_gb) ==
    memory * 2 >= min_vram_gb

\* gpu_filter.py line 99, the memory test of the dual-unit option
DualFits(memory, min_vram_gb) ==
    /\ memory < min_vram_gb
    /\ memory * 2 >= min_vram_gb

Candidate(gpu, count, price) ==
    [gpu_type_id |-> gpu.id, gpu_count |-> count,
     cost_per_hour |-> price * count,
     total_vram_gb |-> gpu.memory_in_gb * count,
     stock_status |-> gpu.stock_status]

\* gpu_filter.py lines 66-109: the candidates one type contributes.
CandidatesOf(gpu, args) ==
    LET avail_count == AvailCount(args.availability, gpu.id)
        price == Price(gpu, args.tier)
        single == IF SingleFits(gpu.memory_in_gb, args.min_vram_gb)
                     /\ avail_count >= 1
                  THEN << Candidate(gpu, 1, price) >> ELSE << >>
        dual == IF DualFits(gpu.memory_in_gb, args.min_vram_gb)
                   /\ avail_count >= 2
                THEN << Candidate(gpu, 2, price) >> ELSE << >>
    IN IF price = NoPrice THEN << >> ELSE single \o dual

RECURSIVE BuildCandidates(_, _)
\* gpu_filter.py lines 63-109: the loop over gpu_types.
BuildCandidates(gpu_types, args) ==
    IF gpu_types = << >> THEN << >>
    ELSE CandidatesOf(Head(gpu_types), args)
             \o BuildCandidates(Tail(gpu_types), args)

\* Mutant: the bounds are exclusive.
CostFilter_Exclusive(cands, args) ==
    LET Keep(cand) ==
            /\ (args.min_cost = NoCost \/ cand.cost_per_hour > args.min_cost)
            /\ (args.max_cost = NoCost \/ cand.cost_per_hour < args.max_cost)
    IN IF args.min_cost # NoCost \/ args.max_cost # NoCost
       THEN SelectSeq(cands, Keep) ELSE cands

\* gpu_filter.py lines 112-117
CostFilter(cands, args) ==
    LET Keep(cand) ==
            /\ (args.min_cost = NoCost \/ cand.cost_per_hour >= args.min_cost)
            /\ (args.max_cost = NoCost \/ cand.cost_per_hour <= args.max_cost)
    IN IF args.min_cost # NoCost \/ args.max_cost # NoCost
       THEN SelectSeq(cands, Keep) ELSE cands

\* Mutant: pairs are dropped unless the flag is True (`not allow_two_gpus`).
TwoGpuFilter_UnsetForbids(cands, args) ==
    LET Single(cand) == cand.gpu_count = 1
    IN IF args.allow_two_gpus # "True" THEN SelectSeq(cands, Single)
       ELSE cands

\* gpu_filter.py lines 120-121
TwoGpuFilter(cands, args) ==
    LET Single(cand) == cand.gpu_count = 1
    IN IF args.allow_two_gpus = "False" THEN SelectSeq(cands, Single)
       ELSE cands

\* gpu_filter.py lines 130-134
stock_score(status) ==
    CASE status = "High" -> 3
      [] status = "Medium" -> 2
      [] status = "Low" -> 1
      [] OTHER -> 0

\* Mutant: the key is the cost alone.
KeyLess_CostOnly(a, b) == a.cost_per_hour < b.cost_per_hour

\* The sort key of line 139 compared as Python compares tuples.
KeyLess(a, b) ==
    \/ a.cost_per_hour < b.cost_per_hour
    \/ /\ a.cost_per_hour = b.cost_per_hour
       /\ 0 - stock_score(a.stock_status) < 0 - stock_score(b.stock_status)

\* gpu_filter.py line 139: list.sort is stable, so an element's place is
\* the number of elements with a smaller key or an equal key and an
\* earlier position.
SortCandidates(cands) ==
    LET Place(i) ==
            1 + Cardinality({j \in DOMAIN cands :
                                \/ KeyLess(cands[j], cands[i])
                                \/ (~KeyLess(cands[i], cands[j]) /\ j < i)})
    IN [r \in DOMAIN cands |->
           cands[CHOOSE i \in DOMAIN cands : Place(i) = r]]

\* gpu_filter.py lines 63-139
RankCandidates(args) ==
    SortCandidates(
        TwoGpuFilter(CostFilter(BuildCandidates(args.gpu_types, args), args),
                     args))

InitRanker ==
    /\ pc = "select_optimal_gpu"
    /\ no_cleanup = FALSE
    /\ \E inv \in Inventories :
          \E av \in AvailabilityMaps(inv), mv \in MinVrams, lo \in Costs,
             hi \in Costs, two \in AllowTwoGpus, tier \in CloudTiers :
             ranker_args =
                 [gpu_types |-> inv, availability |-> av, min_vram_gb |-> mv,
                  min_cost |-> lo, max_cost |-> hi, allow_two_gpus |-> two,
                  tier |-> tier]
    /\ ranker_result = NoRanking
    /\ gpu_candidates = << >>
    /\ gpu_config = 0
    /\ attempt = 0
    /\ creates = << >>
    /\ last_error = NoError
    /\ pod = NoPod
    /\ current_pod_id = ""
    /\ interrupted = "none"
    /\ exit_code = -1
    /\ exit_error = NoError
    /\ deletes = << >>
    /\ wfr = "idle"
    /\ timeout = 0
    /\ elapsed = 0
    /\ frac = FALSE
    /\ fetched = << >>
    /\ poll_cap = 0
    /\ ssh_key_path = TRUE
    /\ password = FALSE
    /\ bind_idx = 0
    /\ procs = << >>
    /\ processes = << >>
    /\ events = << >>
    /\ tunnel_result = NoResult
    /\ local_ip = ""
    /\ conn = NoConn

\* gpu_filter.py lines 123-198: RuntimeError when nothing is left, else the
\* cheapest with auto_select or quiet, else the operator's valid pick.
SelectOptimalGpu ==
    /\ pc = "select_optimal_gpu"
    /\ IF PriceRaises(ranker_args)
       THEN /\ ranker_result' = [NoRanking EXCEPT
                                    !.raised = TRUE,
                                    !.error = {"attributeerror"}]
            /\ pc' = "ranker_raised"
       ELSE LET candidates == RankCandidates(ranker_args) IN
            IF candidates = << >>
            THEN /\ ranker_result' = [NoRanking EXCEPT
                                         !.raised = TRUE,
                                         !.error = NoCandidateError]
                 /\ pc' = "ranker_raised"
            ELSE /\ \E auto \in BOOLEAN, pick \in DOMAIN candidates :
                       ranker_result' =
                           [raised |-> FALSE, error |-> NoError,
                            candidates |-> candidates,
                            selected |-> IF auto THEN 1 ELSE pick,
                            auto |-> auto]
                 /\ pc' = "ranker_returned"
    /\ UNCHANGED << no_cleanup, ranker_args, gpu_candidates, gpu_config,
                    attempt, creates, last_error, pod, current_pod_id,
                    pollVars, tunnelVars, interrupted, exit_code, exit_error,
                    deletes, conn >>

NextRanker == SelectOptimalGpu

SpecRanker == InitRanker /\ [][NextRanker]_vars

(* ----------------------- terminate_pod on its own ---------------------- *)
InitTerminate ==
    /\ pc = "terminate_pod"
    /\ no_cleanup = FALSE
    /\ ranker_args = NoArgs
    /\ ranker_result = NoRanking
    /\ gpu_candidates = << >>
    /\ gpu_config = 0
    /\ attempt = 0
    /\ creates = << >>
    /\ last_error = NoError
    /\ pod = [id |-> "pod", gpu |-> 1]
    /\ current_pod_id = "pod"
    /\ interrupted = "none"
    /\ exit_code = -1
    /\ exit_error = NoError
    /\ deletes = << >>
    /\ wfr = "idle"
    /\ timeout = 0
    /\ elapsed = 0
    /\ frac = FALSE
    /\ fetched = << >>
    /\ poll_cap = 0
    /\ ssh_key_path = TRUE
    /\ password = FALSE
    /\ bind_idx = 0
    /\ procs = << >>
    /\ processes = << >>
    /\ events = << >>
    /\ tunnel_result = NoResult
    /\ local_ip = ""
    /\ conn = NoConn

\* pod_manager.py lines 173-189, called again and again for the same id.
TerminatePodCall ==
    /\ pc = "terminate_pod"
    /\ Len(deletes) < MaxDeletes
    /\ TerminatePod(events)
    /\ UNCHANGED << pc, sessionVars, pollVars, credentials, local_ip, bind_idx,
                    procs, processes, tunnel_result, interrupted, exit_code,
                    exit_error, conn >>

NextTerminate == TerminatePodCall

SpecTerminate == InitTerminate /\ [][NextTerminate]_vars

(* ======================= properties of the session ===================== *)
\* The create calls before the last one all failed with a transient error
\* and the last one returned a Pod.
SucceededAtLast ==
    /\ pod # NoPod
    /\ creates # << >>
    /\ creates[Len(creates)].outcome = "ok"
    /\ \A i \in 1..(Len(creates) - 1) : creates[i].outcome = "transient"

C2_FatalAbortsImmediately ==
    \A i \in DOMAIN creates :
        creates[i].outcome = "fatal" =>
            /\ i = Len(creates)
            /\ pc = "exited"
            /\ exit_code = 1
            /\ exit_error = last_error
            /\ ProviderKind(exit_error) = "fatal"
            /\ pod = NoPod

\* A fatal failure on the first of several candidates.
C2_Witness ==
    /\ Len(creates) = 1
    /\ creates[1].outcome = "fatal"
    /\ creates[1].candidate = 1
    /\ Len(gpu_candidates) >= 2
    /\ pc = "exited"

\* C3: the number of create calls never exceeds min(3, number of ranked
\* candidates); when the last permitted attempt fails with a transient
\* error the session ends in a failure carrying that error, and neither
\* wait_for_running nor a transport launch was started.
C3_AttemptCap ==
    /\ Len(creates) <= Min(max_attempts, Len(gpu_candidates))
    /\ (/\ creates # << >>
        /\ Len(creates) = Min(max_attempts, Len(gpu_candidates))
        /\ creates[Len(creates)].outcome = "transient")
       => /\ pc = "exited"
          /\ exit_code = 1
          /\ exit_error = last_error
          /\ ProviderKind(exit_error) = "transient"
          /\ pod = NoPod
          /\ wfr = "idle" /\ fetched = << >>
          /\ procs = << >> /\ events = << >> /\ deletes = << >>

\* Four candidates, three transient failures: the cap, not the list, ends it.
C3_Witness ==
    /\ Len(gpu_candidates) = 4
    /\ Len(creates) = 3
    /\ \A i \in 1..3 : creates[i].outcome = "transient"
    /\ pc = "exited"

C5_InterruptCleansUp ==
    (pc = "exited" /\ interrupted # "none" /\ pod # NoPod) =>
        /\ procs # << >> =>
              /\ \E i \in DOMAIN events : events[i] = "stop_all"
              /\ processes = << >>
        /\ ~no_cleanup => \E i \in DOMAIN deletes : deletes[i].id = pod.id

\* C6 as stated: once the session has ended, no transport process it
\* launched is still live.
C6_NoTransportOutlivesSession ==
    pc = "exited" => LiveProcs = {}

\* C10 as stated: the wide bind address is tried first and the loopback
\* address only after the wide attempt failed; when the wide attempt's
\* process exited and the loopback attempt's process stays alive,
\* start_tunnels returns success and reports the loopback-only binding.
C10_LoopbackFallbackSucceeds ==
    /\ \A i \in DOMAIN procs :
          procs[i].bind = "127.0.0.1" => bind_idx >= 2
    /\ (/\ tunnel_result # NoResult
        /\ Len(procs) = 2
        /\ procs[1].bind = "0.0.0.0" /\ ~procs[1].alive
        /\ procs[2].bind = "127.0.0.1" /\ procs[2].alive)
       => /\ tunnel_result.success
          /\ tunnel_result.message = "localhost-only"

(* ================== properties of wait_for_running ===================== *)
Ready(snap) ==
    /\ snap.status = "RUNNING"
    /\ snap.public_ip
    /\ "22" \in snap.port_mappings
Terminal(snap) == snap.status \in {"TERMINATED", "EXITED"}

\* C7: wait_for_running returns success for a fetched snapshot exactly when
\* that snapshot is RUNNING with a public address and a mapping for port
\* 22; after a snapshot that lacks one of these and is not terminal it keeps
\* polling, so success comes with the first ready snapshot and not earlier.
C7_SuccessIffReady ==
    /\ wfr = "returned" <=> (fetched # << >> /\ Ready(fetched[Len(fetched)]))
    /\ \A i \in 1..(Len(fetched) - 1) :
          ~Ready(fetched[i]) /\ ~Terminal(fetched[i])
    /\ (/\ fetched # << >>
        /\ ~Ready(fetched[Len(fetched)])
        /\ ~Terminal(fetched[Len(fetched)]))
       => wfr \in {"sleep", "check", "timeout", "fetch_error", "interrupted"}

\* provisioning, running without address, running with address but without
\* port mapping, running with both: success at the fourth fetch.
C7_Witness ==
    /\ wfr = "returned"
    /\ fetched =
         << [status |-> "PROVISIONING", public_ip |-> FALSE,
             port_mappings |-> {}],
            [status |-> "RUNNING", public_ip |-> FALSE,
             port_mappings |-> {}],
            [status |-> "RUNNING", public_ip |-> TRUE,
             port_mappings |-> {}],
            [status |-> "RUNNING", public_ip |-> TRUE,
             port_mappings |-> {"22"}] >>

\* C8: a fetched snapshot with status TERMINATED or EXITED is the last one
\* fetched; wait_for_running fails with an error naming that status and
\* never returns success, whatever the address and port fields are.
C8_TerminalFailsImmediately ==
    \A i \in DOMAIN fetched :
        Terminal(fetched[i]) =>
            /\ i = Len(fetched)
            /\ wfr = "failed"
            /\ pc = "exited"
            /\ exit_code = 1
            /\ exit_error = {"pod failed with status", fetched[i].status}

\* EXITED with address and port mapping present, at the third fetch.
C8_Witness ==
    /\ Len(fetched) = 3
    /\ fetched[3].status = "EXITED"
    /\ fetched[3].public_ip
    /\ "22" \in fetched[3].port_mappings
    /\ wfr = "failed"

\* Most status fetches a call with timeout t > 0 can make: a fetch needs an
\* elapsed time of at most t, and every iteration adds check_interval.
MaxFetches(t) == (t + check_interval - 1) \div check_interval

\* C9: with a timeout configured the number of status fetches is bounded
\* by the timeout, and a call that used them all up without a ready or
\* terminal snapshot ends with the timeout error; with timeout 10 and
\* interval 5 this happens after 2 polls.
C9_TimeoutEndsPolling ==
    timeout # 0 =>
        /\ Len(fetched) <= MaxFetches(timeout)
        /\ MaxFetches(timeout) < poll_cap
        /\ timeout = 10 => Len(fetched) <= 2
        /\ (wfr = "check" /\ Len(fetched) = MaxFetches(timeout))
              => ENABLED WfrTimesOut /\ ~ENABLED WfrFetch
        /\ wfr = "timeout" =>
              /\ pc = "exited"
              /\ exit_code = 1
              /\ exit_error = {"did not become ready"}

\* timeout 10: two polls that were neither ready nor terminal, then the
\* timeout error.
C9_Witness ==
    /\ timeout = 10
    /\ Len(fetched) = 2
    /\ wfr = "timeout"
    /\ exit_error = {"did not become ready"}

(* ==================== properties of an SSHTunnel object ================ *)
StartTunnelsReturned == tunnel_result # NoResult

\* C11: whenever start_tunnels has returned success, the registry holds
\* exactly one handle, that handle is live when the call returns, and its
\* one ssh invocation carries a forward for each of the 3 configured
\* tunnels on the bind address that succeeded; after start_tunnels returned,
\* with success or failure, the registry never holds more than one handle.
C11_OneHandleCarriesAllForwards ==
    /\ StartTunnelsReturned => Len(processes) <= 1
    /\ (tunnel_result.success /\ pc = "post_setup") =>
          /\ Len(processes) = 1
          /\ LET h == procs[processes[1]] IN
                /\ h.alive
                /\ Len(h.cmd.forwards) = 3
                /\ \A i \in 1..3 :
                      /\ h.cmd.forwards[i].local = tunnels[i].local
                      /\ h.cmd.forwards[i].remote = tunnels[i].remote
                      /\ h.cmd.forwards[i].bind = h.bind
                /\ tunnel_result.message = SuccessMessage(h.bind)

\* start_tunnels succeeded on the loopback address after the wide attempt
\* had been launched and had failed.
C11_Witness ==
    /\ tunnel_result.success
    /\ pc = "post_setup"
    /\ Len(procs) = 2
    /\ Len(processes) = 1
    /\ procs[processes[1]].bind = "127.0.0.1"

\* C12 as stated: whenever start_tunnels has returned failure, the registry
\* is empty and no transport process launched during the call is running,
\* in key mode and in password mode.
C12_FailureLeavesNothingRunning ==
    (StartTunnelsReturned /\ ~tunnel_result.success) =>
        /\ processes = << >>
        /\ LiveProcs = {}

StopAllCalled ==
    /\ Len(events') > Len(events)
    /\ events'[Len(events')] = "stop_all"

\* C13: a stop_all call made when the registry is empty changes no process
\* and no registry entry, signals no process and does not raise (the caller
\* goes on).
C13_StopAllOnEmptyRegistryIsNoOp ==
    [][(StopAllCalled /\ processes = << >>) =>
          /\ processes' = << >>
          /\ \A i \in DOMAIN procs : procs'[i] = procs[i]
          /\ \A i \in DOMAIN procs' : procs'[i].signalled = FALSE
                                         \/ (i \in DOMAIN procs
                                             /\ procs[i].signalled)
          /\ pc' # "exited"]_vars

\* stop_all was called twice in a row, the second time on an empty registry,
\* while an unregistered process was alive.
C13_Witness ==
    /\ Len(events) >= 2
    /\ events[Len(events)] = "stop_all"
    /\ events[Len(events) - 1] = "stop_all"
    /\ processes = << >>
    /\ LiveProcs # {}
    /\ pc = "idle"

\* C14: a wait call on an empty registry returns at once; a blocked wait
\* call ends only by returning when every registered handle has terminated
\* or by raising the interrupt it received, and an interrupt always makes it
\* raise.
C14_WaitBlocksAndReraises ==
    [][/\ (Idle /\ processes = << >> /\ Len(events') > Len(events)
           /\ events'[Len(events')] \in {"wait", "wait_returned",
                                         "wait_raised"}) =>
             /\ events'[Len(events')] = "wait_returned"
             /\ pc' = "idle"
       /\ (pc = "wait" /\ pc' # "wait") =>
             IF events'[Len(events) + 1] = "interrupt"
             THEN /\ events' = events \o << "interrupt", "wait_raised" >>
                  /\ procs' = procs
             ELSE /\ events' = Append(events, "wait_returned")
                  /\ \A i \in Registered : ~procs'[i].alive]_vars

\* wait raised the interrupt while its registered handle was alive.
C14_Witness ==
    /\ events # << >>
    /\ events[Len(events)] = "wait_raised"
    /\ interrupted = "wait"
    /\ Registered \cap LiveProcs # {}

\* C19: an SSHTunnel constructed with neither a key path nor a password
\* fails with the credential error and never launches a transport; with a
\* credential the construction succeeds and the registry starts empty.
C19_CredentialRequired ==
    pc # "construct" =>
        IF ~ssh_key_path /\ ~password
        THEN /\ pc = "exited"
             /\ exit_error = {"either ssh key or password is required"}
             /\ procs = << >>
        ELSE /\ "either ssh key or password is required" \notin exit_error
             /\ (pc = "idle" /\ events = << >>) => processes = << >>

\* Constructed with a password only, and a transport was launched.
C19_Witness ==
    /\ ~ssh_key_path
    /\ password
    /\ procs # << >>

(* ==================== properties of the tunnel phase =================== *)
\* C15: when the interrupt arrives during the wait phase, stop_all runs
\* first and terminate_pod is then called if and only if cleanup is not
\* disabled and a current instance id is set.
C15_WaitInterruptTearsDownThenTerminates ==
    (pc = "exited" /\ interrupted = "wait") =>
        LET n == Len(events) IN
        /\ processes = << >>
        /\ IF ~no_cleanup /\ current_pod_id # ""
           THEN /\ n >= 2
                /\ events[n] = "terminate_pod"
                /\ events[n - 1] = "stop_all"
                /\ Len(deletes) = 1
                /\ deletes[1].id = current_pod_id
           ELSE /\ n >= 1
                /\ events[n] = "stop_all"
                /\ deletes = << >>

\* Interrupted in the wait phase of a created pod with cleanup enabled.
C15_Witness ==
    /\ pc = "exited"
    /\ interrupted = "wait"
    /\ ~no_cleanup
    /\ pod # NoPod
    /\ deletes # << >>

\* C16 as stated: a session ended by an interrupt during the wait phase has
\* a status that differs from the failure status 1 and from the status 0
\* of a session that ended without interruption.
C16_CancelledStatusIsDistinct ==
    (pc = "exited" /\ interrupted = "wait") => exit_code \notin {0, 1}

\* C17: when start_tunnels failed on both bind addresses, terminate_pod is
\* called for the current instance if and only if cleanup is not disabled,
\* and the session ends with the failure status.
C17_BindFailureTerminatesUnlessDisabled ==
    (pc = "exited" /\ StartTunnelsReturned /\ ~tunnel_result.success) =>
        /\ exit_code = 1
        /\ IF no_cleanup
           THEN deletes = << >>
           ELSE /\ Len(deletes) = 1
                /\ deletes[1].id = current_pod_id
                /\ events[Len(events)] = "terminate_pod"

\* Both bind addresses failed for a created pod with cleanup enabled.
C17_Witness ==
    /\ pc = "exited"
    /\ StartTunnelsReturned
    /\ ~tunnel_result.success
    /\ ~no_cleanup
    /\ pod # NoPod
    /\ Len(procs) = 2
    /\ deletes # << >>

(* ====================== properties of terminate_pod ==================== *)
\* C18 as stated: terminate_pod returns True when the delete call succeeds
\* or fails with NotFound (404), and False for any other delete error.
C18_SuccessIffDeletedOrNotFound ==
    \A i \in DOMAIN deletes :
        deletes[i].returned <=> deletes[i].outcome.status \in {"200", "404"}

(* =================== properties of select_optimal_gpu ================== *)
\* The inventory entry a candidate was built from.
UnitVram(cand) ==
    LET gpu == CHOOSE g \in GpuCatalogue : g.id = cand.gpu_type_id
    IN gpu.memory_in_gb

\* C20: every candidate the ranker keeps has aggregate VRAM >= min_vram_gb:
\* the unit VRAM for a single-unit candidate, twice the unit VRAM for a
\* dual-unit candidate.
C20_KeptCandidatesMeetMinVram ==
    \A i \in DOMAIN ranker_result.candidates :
        LET cand == ranker_result.candidates[i] IN
        /\ cand.gpu_count \in {1, 2}
        /\ cand.total_vram_gb = cand.gpu_count * UnitVram(cand)
        /\ cand.total_vram_gb >= ranker_args.min_vram_gb

\* A ranking that holds a single-unit and a dual-unit candidate.
C20_Witness ==
    /\ pc = "ranker_returned"
    /\ \E i, j \in DOMAIN ranker_result.candidates :
          /\ ranker_result.candidates[i].gpu_count = 1
          /\ ranker_result.candidates[j].gpu_count = 2

\* C21: a dual-unit candidate is emitted for a type only when
\* unitVram < min_vram_gb <= 2 * unitVram, never for a type whose single
\* unit satisfies min_vram_gb, and no type is in the output with both unit
\* counts.
C21_DualOnlyWhenSingleTooSmall ==
    LET out == ranker_result.candidates IN
    /\ \A i \in DOMAIN out :
          out[i].gpu_count = 2 =>
              /\ UnitVram(out[i]) < ranker_args.min_vram_gb
              /\ ranker_args.min_vram_gb <= 2 * UnitVram(out[i])
    /\ \A i, j \in DOMAIN out :
          i # j => out[i].gpu_type_id # out[j].gpu_type_id

\* A pair of a small type ranked next to a single unit of a type large
\* enough for the same min_vram_gb.
C21_Witness ==
    /\ pc = "ranker_returned"
    /\ \E i, j \in DOMAIN ranker_result.candidates :
          /\ ranker_result.candidates[i].gpu_count = 2
          /\ ranker_result.candidates[j].gpu_count = 1
          /\ UnitVram(ranker_result.candidates[j]) >= ranker_args.min_vram_gb
          /\ 2 * UnitVram(ranker_result.candidates[i])
                 >= ranker_args.min_vram_gb

\* stockScore of C22, written out: High 3, Medium 2, Low 1, else 0.
StockScoreOf(cand) ==
    IF cand.stock_status = "High" THEN 3
    ELSE IF cand.stock_status = "Medium" THEN 2
    ELSE IF cand.stock_status = "Low" THEN 1
    ELSE 0

\* C22: the ranked list is sorted, for every adjacent pair (a, b) either
\* price(a) < price(b), or the prices are equal and
\* stockScore(a) >= stockScore(b); with auto_select or quiet the choice is
\* the first element.
C22_RankedListIsSorted ==
    LET out == ranker_result.candidates IN
    /\ \A i \in 1..(Len(out) - 1) :
          \/ out[i].cost_per_hour < out[i + 1].cost_per_hour
          \/ /\ out[i].cost_per_hour = out[i + 1].cost_per_hour
             /\ StockScoreOf(out[i]) >= StockScoreOf(out[i + 1])
    /\ (pc = "ranker_returned" /\ ranker_result.auto) =>
          ranker_result.selected = 1

\* Two candidates of equal price: the better stocked one came later in the
\* inventory and is ranked first, and it is the automatic choice.
C22_Witness ==
    /\ pc = "ranker_returned"
    /\ ranker_result.auto
    /\ Len(ranker_result.candidates) = 2
    /\ ranker_result.candidates[1].cost_per_hour
          = ranker_result.candidates[2].cost_per_hour
    /\ StockScoreOf(ranker_result.candidates[1])
          > StockScoreOf(ranker_result.candidates[2])
    /\ ranker_args.gpu_types[1].id = ranker_result.candidates[2].gpu_type_id

(* ================== properties of the fallback loop ==================== *)
\* C23: the calls of a session are strictly sequential.  A create call is
\* issued only at the call site of the loop and, after the first, only when
\* the previous one has returned a failure; no status fetch and no
\* transport launch happens in a step that makes a create call, and none
\* happens before the successful create call of the session.
C23_CallsAreSequential ==
    [][/\ creates' # creates =>
             /\ pc = "deploy"
             /\ Len(creates') = Len(creates) + 1
             /\ \A i \in DOMAIN creates : creates'[i] = creates[i]
             /\ creates # << >> =>
                   /\ creates[Len(creates)].outcome # "ok"
                   /\ last_error # NoError
             /\ fetched' = << >>
             /\ procs' = procs
       /\ (fetched' # fetched /\ fetched' # << >>) =>
             /\ pc = "wait_for_running"
             /\ creates' = creates
             /\ creates[Len(creates)].outcome = "ok"
             /\ procs' = procs
       /\ procs' # procs =>
             /\ pc \in {"start_tunnels", "settle", "wait"}
             /\ creates' = creates
             /\ fetched' = fetched
             /\ creates # << >> => creates[Len(creates)].outcome = "ok"]_vars

\* Two create calls, then status fetches, then a transport launch.
C23_Witness ==
    /\ Len(creates) = 2
    /\ creates[1].outcome = "transient"
    /\ creates[2].outcome = "ok"
    /\ procs # << >>

\* C24 as stated: a create failure leads to the fallback exactly when the
\* provider reported a transient failure (no instances left, or a 500):
\* every create call that was followed by another one had failed with a
\* transient failure, and a transient failure ends the session only when no
\* attempt or no candidate is left.
C24_RetriedIffProviderTransient ==
    /\ \A i \in 1..(Len(creates) - 1) : creates[i].outcome = "transient"
    /\ (/\ creates # << >>
        /\ creates[Len(creates)].outcome = "transient"
        /\ pc = "exited"
        /\ interrupted = "none")
       => Len(creates) = Min(max_attempts, Len(gpu_candidates))

(* ================ properties of start_tunnels and stop_all ============= *)
\* C25 as stated: a password-mode transport that asks for the password, is
\* given it and stays alive makes start_tunnels return success with that
\* handle registered, as a key-launched process that stays alive does.
C25_PasswordModeLikeKeyMode ==
    StartTunnelsReturned =>
        \A i \in DOMAIN procs :
            procs[i].launched = "prompt_alive" =>
                /\ tunnel_result.success
                /\ processes = << i >>

\* C26: when the transport of a bind attempt is found dead after the
\* settle interval, the attempt fails for that address and stop_all runs
\* before the next launch; the registry is empty at the moment of every
\* launch, and one start_tunnels call launches at most two transports.
C26_TeardownBeforeNextBind ==
    [][/\ (pc = "settle" /\ pc' = "start_tunnels") =>
             /\ StopAllCalled
             /\ processes' = << >>
             /\ bind_idx' = bind_idx + 1
             /\ ~tunnel_result'.success
       /\ Len(procs') > Len(procs) =>
             /\ processes = << >>
             /\ Len(procs') <= 2
             /\ procs'[Len(procs')].bind = BindAddrs[bind_idx]]_vars

\* The wide transport was found dead after the settle interval and the
\* loopback transport was launched after the teardown.
C26_Witness ==
    /\ Len(procs) = 2
    /\ procs[1].launched \in {"alive", "no_prompt", "eof", "prompt_eof"}
    /\ ~procs[1].alive
    /\ Len(events) >= 3
    /\ events[1] = "launch" /\ events[2] = "stop_all" /\ events[3] = "launch"

\* C27 as stated: after stop_all the registry is empty, every handle that
\* was registered has been asked to terminate, and none of them is still
\* running (a handle that does not exit in time is force-killed).
C27_StopAllStopsEveryHandle ==
    [][StopAllCalled =>
          /\ processes' = << >>
          /\ \A i \in Registered :
                /\ procs'[i].signalled
                /\ ~procs'[i].alive]_vars

(* ==================== wait_for_running without a timeout =============== *)
NotYetDecided(snaps) ==
    \A i \in DOMAIN snaps : Classify(snaps[i]) = "continue"

\* C28: with no timeout, wait_for_running neither returns nor fails on its
\* own while the snapshots are neither ready nor terminal: it stays in the
\* loop, the next fetch or sleep is always possible, and only an interrupt
\* or an error of the fetch ends it.
C28_NoTimeoutPollsOn ==
    timeout = 0 =>
        /\ wfr # "timeout"
        /\ ~ENABLED WfrTimesOut
        /\ wfr = "returned" => Classify(fetched[Len(fetched)]) = "succeed"
        /\ wfr = "failed" => Classify(fetched[Len(fetched)]) = "fail"
        /\ (NotYetDecided(fetched) /\ wfr \notin {"fetch_error", "interrupted"}) =>
              /\ pc = "wait_for_running"
              /\ wfr \in {"check", "sleep"}
              /\ wfr = "sleep" => ENABLED WfrSleep
              /\ (wfr = "check" /\ Len(fetched) < poll_cap) => ENABLED WfrFetch

\* Three undecided snapshots and more time gone than any timeout of the
\* other runs, still polling.
C28_Witness ==
    /\ timeout = 0
    /\ Len(fetched) >= 3
    /\ NotYetDecided(fetched)
    /\ elapsed >= 3 * check_interval
    /\ pc = "wait_for_running"
    /\ wfr = "check"

(* ===================== detect_local_ip, connection details ============= *)
\* C29 as stated: the detection of the display address never fails and
\* never keeps start_tunnels from its bind attempts: whatever the probing
\* does, an address or the loopback placeholder is returned and the bind
\* loop starts.
C29_DetectionNeverFails ==
    [][pc = "detect_local_ip" =>
          /\ pc' = "start_tunnels"
          /\ local_ip' \in {"lan", "localhost"}
          /\ bind_idx' = 1]_vars

\* get_connection_details was called with the snapshot fetched, and ended.
ConnectionDetailsDecided ==
    /\ pc = "get_connection_details"
    /\ pc' # pc
    /\ interrupted' = interrupted
    /\ "api request failed" \notin exit_error'

\* C30: get_connection_details uses the resolver's port when there is one
\* and the snapshot's mapping for port 22 otherwise (resolver returned
\* nothing or failed); it fails only when the snapshot has no public
\* address or neither source gives a port, so a failing resolver alone
\* never ends the session.
C30_PortFromResolverElseSnapshot ==
    [][/\ ConnectionDetailsDecided =>
             /\ (pc' = "exited") <=>
                    (~conn'.ip \/ (conn'.resolver # "port" /\ ~conn'.mapped))
             /\ pc' # "exited" => pc' = "detect_local_ip"
       /\ (pc \in {"start", "get_connection_details"}
              /\ pc' = "detect_local_ip") =>
             /\ conn'.ip
             /\ conn'.ssh_port = IF conn'.resolver = "port"
                                 THEN "graphql_port" ELSE "rest_port"
             /\ conn'.resolver # "port" => conn'.mapped]_vars

\* The resolver failed for a newly created pod whose snapshot maps port 22:
\* the session went on with the snapshot's port.
C30_Witness ==
    /\ creates # << >>
    /\ conn.resolver = "fails"
    /\ conn.ssh_port = "rest_port"
    /\ pc = "start_tunnels"

(* ============ select_optimal_gpu: availability, cost, pairs ============ *)
RankerDone == pc \in {"ranker_returned", "ranker_raised"}

\* The inventory entry with the given id.
TypeOf(id) == CHOOSE g \in GpuCatalogue : g.id = id

\* C31: a single-unit candidate is emitted only for a type whose
\* availability count is >= 1 and a dual-unit candidate only for one whose
\* count is >= 2; a type with count 0 or absent from the availability map
\* has no candidate.
C31_CandidatesAreAvailable ==
    \A i \in DOMAIN ranker_result.candidates :
        LET cand == ranker_result.candidates[i] IN
        /\ cand.gpu_type_id \in DOMAIN ranker_args.availability
        /\ ranker_args.availability[cand.gpu_type_id] >= cand.gpu_count

\* A pair with count 2 is ranked, while a type of the inventory that is
\* large enough and priced is left out for want of availability.
C31_Witness ==
    /\ pc = "ranker_returned"
    /\ \E i \in DOMAIN ranker_result.candidates :
          /\ ranker_result.candidates[i].gpu_count = 2
          /\ ranker_args.availability[
                 ranker_result.candidates[i].gpu_type_id] = 2
    /\ \E k \in DOMAIN ranker_args.gpu_types :
          LET gpu == ranker_args.gpu_types[k] IN
          /\ gpu.memory_in_gb >= ranker_args.min_vram_gb
          /\ gpu.secure_price # NoPrice
          /\ ranker_args.tier.cloud_type = "SECURE"
          /\ gpu.id \notin DOMAIN ranker_args.availability
          /\ \A i \in DOMAIN ranker_result.candidates :
                ranker_result.candidates[i].gpu_type_id # gpu.id

WithinCost(cand, args) ==
    /\ (args.min_cost # NoCost => args.min_cost <= cand.cost_per_hour)
    /\ (args.max_cost # NoCost => cand.cost_per_hour <= args.max_cost)

\* C32: with a minimum and/or maximum cost, the kept candidates are exactly
\* the candidates with min_cost <= price <= max_cost, both inclusive, the
\* price of a pair being twice the unit price; an absent bound filters
\* nothing.
C32_CostBoundsAreInclusive ==
    (RankerDone /\ ~PriceRaises(ranker_args)) =>
        LET built == TwoGpuFilter(
                         BuildCandidates(ranker_args.gpu_types, ranker_args),
                         ranker_args)
        IN /\ Range(ranker_result.candidates)
                 = {c \in Range(built) : WithinCost(c, ranker_args)}
           /\ \A c \in Range(ranker_result.candidates) :
                 c.cost_per_hour
                     = c.gpu_count
                         * Price(TypeOf(c.gpu_type_id), ranker_args.tier)

\* A pair priced exactly at the maximum is kept while a dearer candidate
\* is dropped.
C32_Witness ==
    /\ pc = "ranker_returned"
    /\ ranker_args.max_cost = 2
    /\ ranker_args.min_cost = NoCost
    /\ \E i \in DOMAIN ranker_result.candidates :
          /\ ranker_result.candidates[i].gpu_count = 2
          /\ ranker_result.candidates[i].cost_per_hour = 2
    /\ \E c \in Range(BuildCandidates(ranker_args.gpu_types, ranker_args)) :
          c.cost_per_hour > 2

\* C33: when allow_two_gpus is False the output has no candidate with unit
\* count 2; when it is True or unset, the pairs that pass the other filters
\* are kept.
C33_PairsOnlyWhenAllowed ==
    (RankerDone /\ ~PriceRaises(ranker_args)) =>
        IF ranker_args.allow_two_gpus = "False"
        THEN \A c \in Range(ranker_result.candidates) : c.gpu_count = 1
        ELSE Range(ranker_result.candidates)
                 = Range(CostFilter(
                       BuildCandidates(ranker_args.gpu_types, ranker_args),
                       ranker_args))

\* The flag is False, a pair passed the other filters and is not in the
\* output, which still holds a single unit.
C33_Witness ==
    /\ pc = "ranker_returned"
    /\ ranker_args.allow_two_gpus = "False"
    /\ \E c \in Range(CostFilter(
                   BuildCandidates(ranker_args.gpu_types, ranker_args),
                   ranker_args)) : c.gpu_count = 2
    /\ ranker_result.candidates # << >>

\* C34 as stated: the ranker fails only when no candidate is left after
\* the filters, then with the NoCandidate error naming the region and
\* without a configuration (and no create call); otherwise it does not
\* fail and its result is an element of the filtered list.
C34_FailsOnlyWithoutCandidate ==
    RankerDone =>
        IF ranker_result.raised
        THEN /\ ranker_result.error = NoCandidateError
             /\ ranker_result.selected = 0
             /\ creates = << >>
             /\ RankCandidates(ranker_args) = << >>
        ELSE /\ ranker_result.candidates # << >>
             /\ ranker_result.selected \in DOMAIN ranker_result.candidates
             /\ Range(ranker_result.candidates)
                    = Range(TwoGpuFilter(
                          CostFilter(
                              BuildCandidates(ranker_args.gpu_types,
                                              ranker_args),
                              ranker_args),
                          ranker_args))

\* The price C35 gives a type: the requested tier's price, the reserved
\* price when that one is absent.
TierPrice(gpu, tier) ==
    IF tier.cloud_type = "COMMUNITY"
    THEN IF tier.is_spot THEN gpu.community_spot_price
         ELSE IF "community_price" \in DOMAIN gpu
              THEN gpu.community_price ELSE NoPrice
    ELSE gpu.secure_price

ExpectedPrice(gpu, tier) ==
    IF TierPrice(gpu, tier) # NoPrice THEN TierPrice(gpu, tier)
    ELSE gpu.secure_price

\* C35 as stated: every candidate is priced by the requested tier with the
\* reserved price as fallback, and a type with a reserved price that is
\* large enough and available is never left out by the pricing (no cost
\* bound given).
C35_TierPriceWithReservedFallback ==
    RankerDone =>
        /\ \A c \in Range(ranker_result.candidates) :
              c.cost_per_hour
                  = c.gpu_count
                      * ExpectedPrice(TypeOf(c.gpu_type_id), ranker_args.tier)
        /\ (ranker_args.min_cost = NoCost /\ ranker_args.max_cost = NoCost) =>
              \A k \in DOMAIN ranker_args.gpu_types :
                  LET gpu == ranker_args.gpu_types[k] IN
                  (/\ gpu.secure_price # NoPrice
                   /\ gpu.memory_in_gb >= ranker_args.min_vram_gb
                   /\ gpu.id \in DOMAIN ranker_args.availability
                   /\ ranker_args.availability[gpu.id] >= 1) =>
                      \E c \in Range(ranker_result.candidates) :
                          c.gpu_type_id = gpu.id

(* ===================== end of the wait phase, deletes ================== *)
\* C36: when the transport exits on its own during the wait phase, wait()
\* returns and the session ends with status 0 without stop_all and without
\* a terminate_pod call: the pod is left running and the registry still
\* holds the dead handle.
C36_TransportExitEndsSessionAsIs ==
    [][(pc = "wait" /\ pc' = "exited" /\ interrupted' = interrupted) =>
          /\ exit_code' = 0
          /\ events' = events
          /\ deletes' = deletes
          /\ processes' = processes
          /\ processes' # << >>
          /\ \A i \in Range(processes') : ~procs'[i].alive
          /\ current_pod_id' # ""]_vars

\* A session with cleanup enabled that created its pod and ended this way.
C36_Witness ==
    /\ pc = "exited"
    /\ exit_code = 0
    /\ interrupted = "none"
    /\ ~no_cleanup
    /\ pod # NoPod
    /\ tunnel_result.success
    /\ processes # << >>
    /\ ~procs[processes[1]].alive
    /\ deletes = << >>

\* C37: a delete is only requested for the id of the pod this session
\* created or chose to reuse, never before the create call succeeded or the
\* reuse lookup found the pod running; a session that fails before that
\* point issues no delete.
C37_DeletesOnlyOwnPod ==
    /\ \A i \in DOMAIN deletes :
          /\ deletes[i].id # ""
          /\ deletes[i].id = current_pod_id
          /\ \/ /\ deletes[i].id = pod.id
                /\ creates # << >>
                /\ creates[Len(creates)].outcome = "ok"
             \/ /\ deletes[i].id = "existing"
                /\ creates = << >>
                /\ conn.status = "RUNNING"
    /\ current_pod_id = "" => deletes = << >>

\* The reused pod is terminated after its tunnels could not be set up.
C37_Witness ==
    /\ deletes # << >>
    /\ deletes[1].id = "existing"
    /\ pod = NoPod

\* C38: the fallback loop is left only by a successful create call or by
\* raising: it never ends with all attempts used and no pod, so the poller
\* is only ever started with the handle of a created pod.
C38_LoopEndsWithPodOrRaises ==
    [][/\ (pc \in {"deploy", "backoff"} /\ pc' \notin {"deploy", "backoff"}) =>
             \/ /\ pc' = "wait_for_running"
                /\ pod' # NoPod
                /\ creates'[Len(creates')].outcome = "ok"
                /\ current_pod_id' = pod'.id
             \/ /\ pc' = "exited"
                /\ exit_code' \in {1, 130}
                /\ pod' = NoPod
       /\ pc' = "wait_for_running" => pod' # NoPod
       /\ Len(creates') <= max_attempts]_vars

\* Every attempt was used and failed: the session ended with the error.
C38_Witness ==
    /\ pc = "exited"
    /\ exit_code = 1
    /\ Len(creates) = max_attempts
    /\ \A i \in DOMAIN creates : creates[i].outcome # "ok"
    /\ pod = NoPod
    /\ fetched = << >>

\* C39: on the reuse path, a pod that is not RUNNING or has no public
\* address or management port ends the session before any transport is
\* launched and without a delete; the reuse path never polls.
C39_ReuseFailsBeforeTunnels ==
    /\ exit_error = {"failed to reuse pod"} =>
          /\ \/ conn.status # "RUNNING"
             \/ ~conn.ip
             \/ conn.ssh_port = NoPort
          /\ exit_code = 1
          /\ current_pod_id = ""
          /\ procs = << >>
          /\ events = << >>
          /\ deletes = << >>
    /\ current_pod_id = "existing" =>
          /\ conn.status = "RUNNING"
          /\ conn.ip
          /\ conn.ssh_port # NoPort
    /\ (current_pod_id = "existing"
          \/ exit_error = {"failed to reuse pod"}) =>
          /\ fetched = << >>
          /\ wfr = "idle"
          /\ creates = << >>

\* The chosen pod was RUNNING with an address, but no port came from
\* either source.
C39_Witness ==
    /\ exit_error = {"failed to reuse pod"}
    /\ conn.status = "RUNNING"
    /\ conn.ip
    /\ conn.ssh_port = NoPort

(* ======================= the timeout of the poller ===================== *)
\* C40: a timeout of 0 is no timeout (no timeout error is ever raised);
\* with a positive timeout T the check comes before the fetch of each
\* iteration, and the timeout error is raised only once the elapsed time is
\* strictly greater than T.
C40_ZeroIsNoTimeoutElseStrict ==
    [][/\ wfr' = "timeout" =>
             /\ timeout > 0
             /\ wfr = "check"
             /\ \/ elapsed > timeout
                \/ (elapsed = timeout /\ frac)
             /\ fetched' = fetched
       /\ Len(fetched') > Len(fetched) =>
             \/ timeout = 0
             \/ elapsed < timeout
             \/ (elapsed = timeout /\ ~frac)]_vars

\* The timeout error was raised at the check that follows a sleep, with a
\* positive timeout.
C40_Witness ==
    /\ wfr = "timeout"
    /\ timeout = 10
    /\ Len(fetched) = 2
    /\ elapsed > timeout
====
